---------------------------- MODULE Spec2Model ----------------------------
(***************************************************************************)
(* Model of statsmodels/tsa/vector_ar/util.py: the VAR utility functions   *)
(* (get_var_endog, get_trendorder, make_lag_names, comp_matrix, varsim,    *)
(* vech, seasonal_dummies) and the random sources varsim draws from.       *)
(*                                                                         *)
(* A behaviour is one caller session.  There are two generators: numpy's   *)
(* global one, in any position, and a RandomState(0) object the caller     *)
(* made.  The caller makes one call of one function, and may then repeat a *)
(* varsim call with the same arguments, with other draws from the          *)
(* generators in between.  Arrays are sequences of rows; M[r+1][c+1] is    *)
(* numpy's M[r, c].                                                        *)
(***************************************************************************)
EXTENDS Integers, Sequences, FiniteSets, TLC

VARIABLES last,       \* the call just made: [fn, args, ret], or NoCall
          prev,       \* the varsim call before it (same arguments), or NoCall
          np_random,  \* position of numpy's global generator (np.random)
          rs_obj,     \* position of the caller's RandomState object
          ncalls      \* number of varsim calls made in this session

vars == <<last, prev, np_random, rs_obj, ncalls>>

-----------------------------------------------------------------------------
(* Bounds of the model. *)
MaxK == 2          \* variables per observation (neqs)
MaxP == 2          \* lag order
MaxSteps == 3      \* simulated observations / rows of an offset
MaxNobs == 3       \* observations of a series given to get_var_endog
MaxExog == 2       \* exogenous columns named by make_lag_names
MaxSeasons == 4    \* n_seasons
MaxLen == 8        \* len_endog
MaxSeed == 1       \* integer seeds 0..MaxSeed
MaxCalls == 2      \* varsim calls per session
RngMod == 3        \* length of the generators' cycle of deviates

-----------------------------------------------------------------------------
(* Python values. *)
None == [kind |-> "None"]
NoCall == [fn |-> "none"]
Ok(v) == [ok |-> TRUE, val |-> v]
Raise(e) == [ok |-> FALSE, err |-> e]

Min(a, b) == IF a < b THEN a ELSE b

(* numpy arrays: np.zeros((r, c)), M[r, c], shape *)
Zeros(r, c) == [i \in 1..r |-> [j \in 1..c |-> 0]]
At(M, r, c) == M[r + 1][c + 1]

(* test data: the i-th entry of the a-th array, in -2..2 *)
Val(a, i) == (((a + 1) * (i + 1) + a) % 5) - 2

-----------------------------------------------------------------------------
(* get_trendorder *)
Trends == {"c", "nc", "ct", "ctt", "t", "n", "C", ""}

get_trendorder_ct_as_c(trend) ==
    IF trend = "c" THEN Ok(1)
    ELSE IF trend = "nc" THEN Ok(0)
    ELSE IF trend = "ct" THEN Ok(1)
    ELSE IF trend = "ctt" THEN Ok(3)
    ELSE Raise("UnboundLocalError")

\* no branch assigns trendorder for any other input, so `return trendorder`
\* raises UnboundLocalError
get_trendorder(trend) ==
    IF trend = "c" THEN Ok(1)
    ELSE IF trend = "nc" THEN Ok(0)
    ELSE IF trend = "ct" THEN Ok(2)
    ELSE IF trend = "ctt" THEN Ok(3)
    ELSE Raise("UnboundLocalError")

-----------------------------------------------------------------------------
(* comp_matrix *)

\* a coefficient array of shape (p, k, k2): coefs[j+1] is numpy's coefs[j]
CoefArray(a, p, k, k2) ==
    [j \in 1..p |-> [r \in 1..k |-> [c \in 1..k2 |->
        Val(a, (j - 1) * k * k2 + (r - 1) * k2 + (c - 1))]]]

CoefPats == {0, 1}

\* np.concatenate(coefs, axis=1): the slices side by side
ConcatAxis1(coefs, k, k2) ==
    [r \in 1..k |-> [c \in 1..(Len(coefs) * k2) |->
        coefs[((c - 1) \div k2) + 1][r][((c - 1) % k2) + 1]]]

SetIdentityBlocks_diag(result, k, kp) ==
    [r \in 1..kp |-> [c \in 1..kp |->
        IF r - 1 >= k /\ c - 1 = r - 1 THEN 1 ELSE result[r][c]]]

\* result[np.arange(k, kp), np.arange(kp-k)] = 1
SetIdentityBlocks(result, k, kp) ==
    [r \in 1..kp |-> [c \in 1..kp |->
        IF r - 1 >= k /\ c - 1 = (r - 1) - k THEN 1 ELSE result[r][c]]]

comp_matrix(coefs, k, k2) ==
    LET p == Len(coefs)
        kp == k * p
        top == ConcatAxis1(coefs, k, k2)
        result0 == Zeros(kp, kp)
        result1 == [r \in 1..kp |-> IF r <= k THEN top[r] ELSE result0[r]]
    IN  IF k # k2 THEN Raise("AssertionError")
        ELSE IF p > 1 THEN Ok(SetIdentityBlocks(result1, k, kp))
        ELSE Ok(result1)

-----------------------------------------------------------------------------
(* make_lag_names *)

\* a variable name is a string or a number; the names argument is a list of
\* them or one bare string
StrName(s) == [kind |-> "str", s |-> s]
IntName(n) == [kind |-> "int", n |-> n]
NamePool == <<StrName("foo"), IntName(7), StrName("bar")>>
NameList(k) == [kind |-> "list", items |-> SubSeq(NamePool, 1, k)]

\* exog: None, or an array with E columns (only exog.shape[1] is read)
Exog(e) == [kind |-> "array", ncols |-> e]

\* list.insert(i, x) for i >= 0: x goes before position i, or at the end
\* when the list is shorter
ListInsert(lst, i, x) ==
    LET at == Min(i, Len(lst))
    IN  SubSeq(lst, 1, at) \o <<x>> \o SubSeq(lst, at + 1, Len(lst))

\* 'L'+str(i)+'.'+name, with name = str(name) for a non-string
LagName(i, name) ==
    "L" \o ToString(i) \o "." \o
        (IF name.kind = "str" THEN name.s ELSE ToString(name.n))

\* for i in range(1, lag_order + 1): for name in names: lag_names.append(..)
LaggedNames(items, lag_order) ==
    [n \in 1..(lag_order * Len(items)) |->
        LagName(((n - 1) \div Len(items)) + 1,
                items[((n - 1) % Len(items)) + 1])]

RECURSIVE InsertExog(_, _, _, _)
\* for i in range(exog.shape[1]): lag_names.insert(trendorder + i, ..)
InsertExog(lag_names, trendorder, i, ncols) ==
    IF i >= ncols THEN lag_names
    ELSE InsertExog(ListInsert(lag_names, trendorder + i,
                               "exog" \o ToString(i)),
                    trendorder, i + 1, ncols)

make_lag_names(names, lag_order, trendorder, exog) ==
    LET items == IF names.kind = "str" THEN <<names>> ELSE names.items
        l0 == LaggedNames(items, lag_order)
        l1 == IF trendorder # 0 THEN ListInsert(l0, 0, "const") ELSE l0
        l2 == IF trendorder > 1 THEN ListInsert(l1, 1, "trend") ELSE l1
        l3 == IF trendorder > 2 THEN ListInsert(l2, 2, "trend**2") ELSE l2
    IN  IF exog.kind # "None"
        THEN InsertExog(l3, trendorder, 0, exog.ncols)
        ELSE l3

-----------------------------------------------------------------------------
(* get_var_endog *)

\* series given to get_var_endog: nobs rows of k variables
YKinds == {"distinct", "ones", "const0", "zeros"}
Series(kind, nobs, k) ==
    [t \in 1..nobs |-> [v \in 1..k |->
        CASE kind = "distinct" -> 10 * t + v
          [] kind = "ones"     -> 1
          [] kind = "const0"   -> IF v = 1 THEN 5 ELSE 10 * t + v
          [] OTHER             -> 0]]

\* y[t-lags : t][::-1].ravel(): rows t-1, t-2, .., t-lags, each with its k
\* variables in order
LagRow(y, t, lags, k) ==
    [c \in 1..(lags * k) |->
        At(y, t - 1 - ((c - 1) \div k), (c - 1) % k)]

\* Z = np.array([... for t in range(lags, nobs)])
LagMatrix(y, lags, k) ==
    [r \in 1..(Len(y) - lags) |-> LagRow(y, lags + r - 1, lags, k)]

\* tsa.add_trend is not among the source files: it is modelled from the
\* specification's description of it (trend columns 1s; 1s+linear index;
\* 1s+linear+quadratic, prepended; the has_constant policy decides what
\* happens when the data already holds a constant column: raise, add, skip).
\* a constant column: every row holds the same nonzero value
HasConstantColumn(Z) ==
    /\ Len(Z) > 0
    /\ \E c \in 1..Len(Z[1]) :
          /\ Z[1][c] # 0
          /\ \A r \in 1..Len(Z) : Z[r][c] = Z[1][c]

TrendRow(r, order) == [c \in 1..order |->
    IF c = 1 THEN 1 ELSE IF c = 2 THEN r ELSE r * r]

add_trend(Z, trend, has_constant) ==
    LET order == IF trend = "c" THEN 1 ELSE IF trend = "ct" THEN 2 ELSE 3
        isconst == HasConstantColumn(Z)
        full == [r \in 1..Len(Z) |-> TrendRow(r, order) \o Z[r]]
        skipped == [r \in 1..Len(Z) |-> Tail(TrendRow(r, order)) \o Z[r]]
    IN  IF trend \notin {"c", "ct", "ctt"} THEN Raise("ValueError")
        ELSE IF isconst /\ has_constant = "raise" THEN Raise("ValueError")
        ELSE IF isconst /\ has_constant = "skip" THEN Ok(skipped)
        ELSE Ok(full)

get_var_endog(y, lags, trend, has_constant, k) ==
    LET Z == LagMatrix(y, lags, k)
    IN  IF trend # "nc" THEN add_trend(Z, trend, has_constant) ELSE Ok(Z)

-----------------------------------------------------------------------------
(* vech *)

Matrix(a, rows, cols) ==
    [r \in 1..rows |-> [c \in 1..cols |-> Val(a, (r - 1) * cols + (c - 1))]]

\* the (b, i) pairs the two loops visit, in order: for i in range(length),
\* b = i .. length-1
RECURSIVE VechVisits(_, _, _)
VechVisits(i, b, length) ==
    IF i >= length THEN <<>>
    ELSE IF b >= length THEN VechVisits(i + 1, i + 1, length)
    ELSE <<<<b, i>>>> \o VechVisits(i, b + 1, length)

\* length = A.shape[1]; A[b, i] raises IndexError when b is no row of A
vech(A, nrows, ncols) ==
    LET length == ncols
        visits == VechVisits(0, 0, length)
    IN  IF \E n \in 1..Len(visits) : visits[n][1] >= nrows
        THEN Raise("IndexError")
        ELSE Ok([n \in 1..Len(visits) |-> At(A, visits[n][1], visits[n][2])])

-----------------------------------------------------------------------------
(* seasonal_dummies *)

\* an entry is a fraction num/den (centering subtracts 1 / n_seasons)
Frac(n, d) == <<n, d>>

\* whether row r is in the slice start::step of len rows (0 <= start)
InSlice(r, start, step, len) ==
    r >= Min(start, len) /\ r < len /\ (r - start) % step = 0

SeasonStart_plus(i, first_period, n_seasons) == (i + first_period) % n_seasons

\* season_exog[(i-first_period) % n_seasons :: n_seasons, i] = 1
SeasonStart(i, first_period, n_seasons) == (i - first_period) % n_seasons

seasonal_dummies(n_seasons, len_endog, first_period, centered) ==
    IF n_seasons = 0 THEN Ok([r \in 1..len_endog |-> <<>>])
    ELSE IF n_seasons > 0 THEN
        LET hit(r, i) == InSlice(r, SeasonStart(i, first_period, n_seasons),
                                 n_seasons, len_endog)
            one(r, i) == IF hit(r, i) THEN 1 ELSE 0
        IN  Ok([r \in 1..len_endog |-> [c \in 1..(n_seasons - 1) |->
                IF centered
                THEN Frac(one(r - 1, c - 1) * n_seasons - 1, n_seasons)
                ELSE Frac(one(r - 1, c - 1), 1)]])
    ELSE Ok(None)

-----------------------------------------------------------------------------
(* the random sources *)

\* A generator is a position in a fixed cycle of standard normal deviates;
\* drawing n deviates reads n positions and advances by n.
Gauss(pos) == (pos % RngMod) - 1

\* np.random.RandomState(seed=seed): the position is a function of the seed
SeedPos(seed) == seed % RngMod

IntSeed(n) == [kind |-> "int", n |-> n]
RandomState == [kind |-> "RandomState"]
Seeds == {None, RandomState} \cup {IntSeed(n) : n \in 0..MaxSeed}

\* lines 234-239: which generator rs is
SelectGenerator_global(seed) ==
    IF seed.kind = "RandomState" THEN "rs_obj" ELSE "np.random"

SelectGenerator(seed) ==
    IF seed.kind = "RandomState" THEN "rs_obj"
    ELSE IF seed.kind = "int" THEN "fresh"
    ELSE "np.random"

\* cov_resid: None, the zero matrix or the identity, as the factor each
\* deviate is scaled by
Covs == {"None", "zero", "eye"}
CovFactor(cov) == IF cov = "zero" THEN 0 ELSE 1

\* rs.multivariate_normal(np.zeros(k), cov, steps): steps rows of k deviates
multivariate_normal(pos, cov, steps, k) ==
    [t \in 1..steps |-> [c \in 1..k |->
        CovFactor(cov) * Gauss(pos + (t - 1) * k + (c - 1))]]

-----------------------------------------------------------------------------
(* varsim *)

RECURSIVE SumTo(_, _)
SumTo(f, n) == IF n = 0 THEN 0 ELSE f[n] + SumTo(f, n - 1)

\* np.dot(A, v) for a k x k matrix and a k-vector
Dot(A, v, k) == [r \in 1..k |-> SumTo([c \in 1..k |-> A[r][c] * v[c]], k)]
VecAdd(v, w) == [c \in 1..Len(v) |-> v[c] + w[c]]

\* intercept: None, a 1-D array of k entries, or a 2-D array of k columns
Intercept1D(k) == [ndim |-> 1, vec |-> [c \in 1..k |-> Val(2, c)]]
Intercept2D(rows, k) == [ndim |-> 2, mat |-> Matrix(3, rows, k)]
NoIntercept == [ndim |-> 0]

\* row t of the intercept broadcast to (steps, k)
InterceptRow(intercept, t, k) ==
    IF intercept.ndim = 0 THEN [c \in 1..k |-> 0]
    ELSE IF intercept.ndim = 1 THEN intercept.vec
    ELSE intercept.mat[t + 1]

\* lines 249-251: the dimension check of a 2-D intercept
OffsetLengthBad_fewer(intercept, ugen) ==
    intercept.ndim > 1 /\ Len(intercept.mat) < Len(ugen)

OffsetLengthBad(intercept, ugen) ==
    intercept.ndim > 1 /\ ~(Len(intercept.mat) = Len(ugen))

\* lines 246-256: result before the AR terms
SeedAndNoise_allrows(intercept, ugen, p, steps, k) ==
    [t \in 1..steps |-> VecAdd(InterceptRow(intercept, t - 1, k), ugen[t])]

SeedAndNoise(intercept, ugen, p, steps, k) ==
    [t \in 1..steps |->
        IF intercept.ndim # 0
        THEN IF t - 1 >= p
             THEN VecAdd(InterceptRow(intercept, t - 1, k), ugen[t])
             ELSE InterceptRow(intercept, t - 1, k)
        ELSE IF t - 1 >= p THEN ugen[t] ELSE [c \in 1..k |-> 0]]

\* np.dot(coefs[j], result[t-j-1])
ARTerm_lag1(coefs, result, t, j, k) == Dot(coefs[j + 1], result[t], k)

ARTerm(coefs, result, t, j, k) == Dot(coefs[j + 1], result[(t - j - 1) + 1], k)

RECURSIVE ARInner(_, _, _, _, _, _)
\* for j in range(p): ygen += ...   (ygen is a view of result[t])
ARInner(result, coefs, t, j, p, k) ==
    IF j >= p THEN result
    ELSE ARInner([result EXCEPT
                      ![t + 1] = VecAdd(@, ARTerm(coefs, result, t, j, k))],
                 coefs, t, j + 1, p, k)

RECURSIVE ARLoop(_, _, _, _, _, _)
\* for t in range(p, steps)
ARLoop(result, coefs, t, p, steps, k) ==
    IF t >= steps THEN result
    ELSE ARLoop(ARInner(result, coefs, t, 0, p, k), coefs, t + 1, p, steps, k)

\* The call and what it does to the generators.  initvalues is not read.
varsim(coefs, k, intercept, cov_resid, steps, initvalues, seed, glob, obj) ==
    LET rs == SelectGenerator(seed)
        pos == IF rs = "rs_obj" THEN obj
               ELSE IF rs = "fresh" THEN SeedPos(seed.n)
               ELSE glob
        p == Len(coefs)
        ugen == multivariate_normal(pos, cov_resid, steps, k)
        after == (pos + steps * k) % RngMod
        result == SeedAndNoise(intercept, ugen, p, steps, k)
    IN  [ret |-> IF OffsetLengthBad(intercept, ugen) THEN Raise("ValueError")
                 ELSE Ok(ARLoop(result, coefs, p, p, steps, k)),
         ugen |-> ugen,
         draws |-> <<[rs |-> rs, size |-> steps]>>,
         np_random |-> IF rs = "np.random" THEN after ELSE glob,
         rs_obj |-> IF rs = "rs_obj" THEN after ELSE obj]

-----------------------------------------------------------------------------
(* The caller. *)

Init ==
    /\ last = NoCall
    /\ prev = NoCall
    /\ np_random \in 0..(RngMod - 1)
    /\ rs_obj = SeedPos(0)
    /\ ncalls = 0

Returned(fn, args, ret) ==
    /\ last' = [fn |-> fn, args |-> args, ret |-> ret]
    /\ UNCHANGED <<prev, np_random, rs_obj, ncalls>>

call_get_trendorder ==
    /\ last = NoCall
    /\ \E trend \in Trends :
          Returned("get_trendorder", [trend |-> trend], get_trendorder(trend))

call_comp_matrix ==
    /\ last = NoCall
    /\ \E a \in CoefPats, p \in 1..MaxP, k \in 1..MaxK, k2 \in 1..MaxK :
          LET coefs == CoefArray(a, p, k, k2)
          IN  Returned("comp_matrix", [coefs |-> coefs, p |-> p, k |-> k, k2 |-> k2],
                       comp_matrix(coefs, k, k2))

call_make_lag_names ==
    /\ last = NoCall
    /\ \E names \in {NameList(k) : k \in 0..MaxK} \cup {StrName("foo")},
          lag_order \in 0..MaxP, trendorder \in 0..3,
          exog \in {None} \cup {Exog(e) : e \in 0..MaxExog} :
          Returned("make_lag_names",
                   [names |-> names, lag_order |-> lag_order,
                    trendorder |-> trendorder, exog |-> exog],
                   Ok(make_lag_names(names, lag_order, trendorder, exog)))

\* lags < nobs is the documented precondition
call_get_var_endog ==
    /\ last = NoCall
    /\ \E kind \in YKinds, nobs \in 1..MaxNobs, k \in 1..MaxK,
          trend \in {"nc", "c", "ct", "ctt"},
          has_constant \in {"skip", "raise", "add"} :
          \E lags \in 0..Min(MaxP, nobs - 1) :
             LET y == Series(kind, nobs, k)
             IN  Returned("get_var_endog",
                          [y |-> y, k |-> k, lags |-> lags, trend |-> trend,
                           has_constant |-> has_constant],
                          get_var_endog(y, lags, trend, has_constant, k))

call_vech ==
    /\ last = NoCall
    /\ \E a \in CoefPats, nrows \in 1..(MaxK + 1), ncols \in 1..(MaxK + 1) :
          LET A == Matrix(a, nrows, ncols)
          IN  Returned("vech", [A |-> A, nrows |-> nrows, ncols |-> ncols],
                       vech(A, nrows, ncols))

call_seasonal_dummies ==
    /\ last = NoCall
    /\ \E n_seasons \in (-1)..MaxSeasons, len_endog \in 0..MaxLen,
          first_period \in (-MaxSeasons)..(MaxSeasons + 1),
          centered \in BOOLEAN :
          Returned("seasonal_dummies",
                   [n_seasons |-> n_seasons, len_endog |-> len_endog,
                    first_period |-> first_period, centered |-> centered],
                   seasonal_dummies(n_seasons, len_endog, first_period, centered))

\* the intercept arguments tried for k variables: absent, a vector, or an
\* offset of 0..MaxSteps+1 rows
InterceptChoices ==
    {[ndim |-> 0], [ndim |-> 1]}
        \cup {[ndim |-> 2, rows |-> r] : r \in 0..(MaxSteps + 1)}
InterceptArg(choice, k) ==
    IF choice.ndim = 0 THEN NoIntercept
    ELSE IF choice.ndim = 1 THEN Intercept1D(k)
    ELSE Intercept2D(choice.rows, k)

InitvaluesArg(given, p, k) ==
    IF given THEN [kind |-> "array", val |-> Matrix(4, p, k)] ELSE None

VarsimArgs(p, k, choice, cov_resid, steps, given, seed) ==
    [coefs |-> CoefArray(1, p, k, k), k |-> k,
     intercept |-> InterceptArg(choice, k),
     cov_resid |-> cov_resid, steps |-> steps,
     initvalues |-> InitvaluesArg(given, p, k), seed |-> seed]

DoVarsim(args) ==
    LET r == varsim(args.coefs, args.k, args.intercept, args.cov_resid,
                    args.steps, args.initvalues, args.seed, np_random, rs_obj)
    IN  /\ last' = [fn |-> "varsim", args |-> args, ret |-> r.ret,
                    ugen |-> r.ugen, draws |-> r.draws]
        /\ np_random' = r.np_random
        /\ rs_obj' = r.rs_obj
        /\ ncalls' = ncalls + 1

call_varsim ==
    /\ last = NoCall
    /\ \E p \in 0..MaxP, k \in 1..MaxK, choice \in InterceptChoices,
          cov_resid \in Covs, steps \in 0..MaxSteps, given \in BOOLEAN,
          seed \in Seeds :
          DoVarsim(VarsimArgs(p, k, choice, cov_resid, steps, given, seed))
    /\ prev' = NoCall

\* the same call once more
call_varsim_again ==
    /\ last.fn = "varsim"
    /\ ncalls < MaxCalls
    /\ DoVarsim(last.args)
    /\ prev' = last

\* other code draws from numpy's global generator between two calls
np_random_draw ==
    /\ last.fn = "varsim"
    /\ ncalls < MaxCalls
    /\ np_random' = (np_random + 1) % RngMod
    /\ UNCHANGED <<last, prev, rs_obj, ncalls>>

\* the caller draws from its RandomState object between two calls
rs_obj_draw ==
    /\ last.fn = "varsim"
    /\ ncalls < MaxCalls
    /\ rs_obj' = (rs_obj + 1) % RngMod
    /\ UNCHANGED <<last, prev, np_random, ncalls>>

Next ==
    \/ call_get_trendorder
    \/ call_comp_matrix
    \/ call_make_lag_names
    \/ call_get_var_endog
    \/ call_vech
    \/ call_seasonal_dummies
    \/ call_varsim
    \/ call_varsim_again
    \/ np_random_draw
    \/ rs_obj_draw

Spec == Init /\ [][Next]_vars

-----------------------------------------------------------------------------
(* Properties. *)

IsCall(fn) == last.fn = fn
IsShape(M, rows, cols) ==
    Len(M) = rows /\ \A r \in 1..rows : Len(M[r]) = cols

\* C1: comp_matrix of a (p, K, K) array, p >= 1, returns a Kp x Kp matrix
\* whose top K rows are the p slices side by side in lag order, and whose
\* every row i with K <= i < Kp has a 1 at column i-K and 0 elsewhere.
C1_CompanionStructure ==
    (IsCall("comp_matrix") /\ last.args.k = last.args.k2) =>
        LET K == last.args.k
            p == last.args.p
            coefs == last.args.coefs
        IN  /\ last.ret.ok
            /\ IsShape(last.ret.val, K * p, K * p)
            /\ \A i \in 0..(K - 1), j \in 0..(p - 1), c \in 0..(K - 1) :
                  At(last.ret.val, i, j * K + c) = At(coefs[j + 1], i, c)
            /\ \A i \in K..(K * p - 1), c \in 0..(K * p - 1) :
                  At(last.ret.val, i, c) = (IF c = i - K THEN 1 ELSE 0)

C1_Witness ==
    /\ IsCall("comp_matrix")
    /\ last.ret.ok
    /\ last.args.p >= 2
    /\ last.args.k >= 2

\* the sum over j = 0..p-1 of coefs[j] applied to y[t-j-1]
RECURSIVE LagSum(_, _, _, _, _)
LagSum(coefs, y, t, j, k) ==
    IF j = 0 THEN [c \in 1..k |-> 0]
    ELSE VecAdd(LagSum(coefs, y, t, j - 1, k),
                Dot(coefs[j], y[(t - j) + 1], k))

IsZeroRow(v) == \A c \in 1..Len(v) : v[c] = 0

OffsetFits(args) ==
    args.intercept.ndim < 2 \/ Len(args.intercept.mat) = args.steps

\* C2: varsim returns a steps x K series y with, for every t in p..steps-1,
\* y[t] = intercept[t] (0 if absent) + u[t] + sum_j coefs[j] y[t-j-1];
\* with the zero covariance the noise term is absent.
C2_Recursion ==
    (IsCall("varsim") /\ OffsetFits(last.args)) =>
        LET a == last.args
            p == Len(a.coefs)
            y == last.ret.val
        IN  /\ last.ret.ok
            /\ IsShape(y, a.steps, a.k)
            /\ \A t \in p..(a.steps - 1) :
                  /\ y[t + 1] =
                        VecAdd(VecAdd(InterceptRow(a.intercept, t, a.k),
                                      last.ugen[t + 1]),
                               LagSum(a.coefs, y, t, p, a.k))
                  /\ a.cov_resid = "zero" =>
                        y[t + 1] = VecAdd(InterceptRow(a.intercept, t, a.k),
                                          LagSum(a.coefs, y, t, p, a.k))

C2_Witness ==
    /\ IsCall("varsim")
    /\ last.ret.ok
    /\ Len(last.args.coefs) = 2
    /\ last.args.k = 2
    /\ last.args.steps > 2
    /\ last.args.intercept.ndim = 2
    /\ ~IsZeroRow(last.ugen[last.args.steps])
    /\ ~IsZeroRow(LagSum(last.args.coefs, last.ret.val, last.args.steps - 1,
                         2, 2))

\* C3: the seed rows 0..p-1 of the returned series hold the intercept/offset
\* row, or zero without an intercept, and no noise or AR term, whatever
\* initvalues is.
C3_SeedRows ==
    (IsCall("varsim") /\ last.ret.ok) =>
        LET a == last.args
            p == Len(a.coefs)
        IN  \A t \in 0..(Min(p, a.steps) - 1) :
               last.ret.val[t + 1] = InterceptRow(a.intercept, t, a.k)

C3_Witness ==
    /\ IsCall("varsim")
    /\ last.ret.ok
    /\ last.args.initvalues # None
    /\ Len(last.args.coefs) >= 1
    /\ last.args.steps > Len(last.args.coefs)
    /\ ~IsZeroRow(last.ugen[1])
    /\ last.args.initvalues.val[1] # last.ret.val[1]

\* C4: a 2-D intercept whose row count differs from steps makes varsim fail
\* with the dimension error and return no series; with the row count equal
\* to steps the call succeeds.
C4_OffsetLength ==
    (IsCall("varsim") /\ last.args.intercept.ndim = 2) =>
        IF Len(last.args.intercept.mat) # last.args.steps
        THEN last.ret = Raise("ValueError")
        ELSE last.ret.ok

C4_Witness ==
    /\ IsCall("varsim")
    /\ last.args.intercept.ndim = 2
    /\ Len(last.args.intercept.mat) > last.args.steps
    /\ last.args.steps > 0
    /\ ~last.ret.ok

\* the names make_lag_names must give for K variables, lag order p, trend
\* order and E exogenous columns: trend names, exog names, then L{l}.{name}
TrendNames == <<"const", "trend", "trend**2">>
NameText(name) == IF name.kind = "str" THEN name.s ELSE ToString(name.n)
NamesLaidOut(lag_names, items, p, trendorder, E) ==
    LET K == Len(items)
    IN  /\ Len(lag_names) = trendorder + E + K * p
        /\ \A n \in 1..trendorder : lag_names[n] = TrendNames[n]
        /\ \A e \in 0..(E - 1) :
              lag_names[trendorder + e + 1] = "exog" \o ToString(e)
        /\ \A l \in 1..p, v \in 0..(K - 1) :
              lag_names[trendorder + E + (l - 1) * K + v + 1] =
                  "L" \o ToString(l) \o "." \o NameText(items[v + 1])

\* whether column c of the design matrix Z is what the name says: the
\* constant, the linear or quadratic trend, or lag l of variable v of y
ColumnIs(Z, c, name, y, lags, K) ==
    \/ name = "const" /\ \A r \in 1..Len(Z) : Z[r][c] = 1
    \/ name = "trend" /\ \A r \in 1..Len(Z) : Z[r][c] = r
    \/ name = "trend**2" /\ \A r \in 1..Len(Z) : Z[r][c] = r * r
    \/ \E l \in 1..lags, v \in 0..(K - 1) :
          /\ name = "L" \o ToString(l) \o "." \o NameText(NamePool[v + 1])
          /\ \A r \in 1..Len(Z) : Z[r][c] = At(y, (lags + r - 1) - l, v)

\* C5: make_lag_names returns trendorder + E + K*p names laid out as trend
\* names, exog names, lag names; with no exog its length and order are the
\* column count and column order of the design matrix get_var_endog builds
\* for the same K, p and trend.
C5_LagNamesMatchDesign ==
    /\ IsCall("make_lag_names") =>
          LET a == last.args
          IN  NamesLaidOut(last.ret.val,
                           IF a.names.kind = "str" THEN <<a.names>>
                           ELSE a.names.items,
                           a.lag_order, a.trendorder,
                           IF a.exog.kind = "None" THEN 0 ELSE a.exog.ncols)
    /\ (IsCall("get_var_endog") /\ last.args.has_constant = "skip") =>
          LET a == last.args
              lag_names == make_lag_names(NameList(a.k), a.lags,
                                          get_trendorder(a.trend).val, None)
          IN  /\ last.ret.ok
              /\ \A r \in 1..Len(last.ret.val) :
                    Len(last.ret.val[r]) = Len(lag_names)
              /\ \A c \in 1..Len(lag_names) :
                    ColumnIs(last.ret.val, c, lag_names[c], a.y, a.lags, a.k)

\* C6: with the default has_constant policy get_var_endog returns nobs - p
\* rows and trendOrder + K*p columns, and the row for time t holds, after the
\* trend columns, y[t-1], .., y[t-p], each with its K variables in order.
C6_DesignMatrix ==
    (IsCall("get_var_endog") /\ last.args.has_constant = "skip") =>
        LET a == last.args
            nobs == Len(a.y)
            order == get_trendorder(a.trend).val
        IN  /\ last.ret.ok
            /\ IsShape(last.ret.val, nobs - a.lags, order + a.k * a.lags)
            /\ \A t \in a.lags..(nobs - 1), l \in 1..a.lags, v \in 0..(a.k - 1) :
                  At(last.ret.val, t - a.lags, order + (l - 1) * a.k + v)
                      = At(a.y, t - l, v)

\* C7 as stated: with centered False, seasonal_dummies returns a
\* len_endog x (n_seasons-1) matrix whose entry (r, i) is 1 exactly when
\* (r - first_period) mod n_seasons = i.
C7_DummiesMinusFirstPeriod ==
    (IsCall("seasonal_dummies") /\ last.args.n_seasons >= 1
        /\ ~last.args.centered) =>
        LET a == last.args
        IN  /\ last.ret.ok
            /\ IsShape(last.ret.val, a.len_endog, a.n_seasons - 1)
            /\ \A r \in 0..(a.len_endog - 1), i \in 0..(a.n_seasons - 2) :
                  At(last.ret.val, r, i) =
                      Frac(IF (r - a.first_period) % a.n_seasons = i
                           THEN 1 ELSE 0, 1)

\* C7 amended: the entry (r, i) is 1 exactly when
\* (r + first_period) mod n_seasons = i: row 0 is in season first_period.
C7_DummiesPlusFirstPeriod ==
    (IsCall("seasonal_dummies") /\ last.args.n_seasons >= 1
        /\ ~last.args.centered) =>
        LET a == last.args
        IN  /\ last.ret.ok
            /\ IsShape(last.ret.val, a.len_endog, a.n_seasons - 1)
            /\ \A r \in 0..(a.len_endog - 1), i \in 0..(a.n_seasons - 2) :
                  At(last.ret.val, r, i) =
                      Frac(IF (r + a.first_period) % a.n_seasons = i
                           THEN 1 ELSE 0, 1)

C7_Witness ==
    /\ IsCall("seasonal_dummies")
    /\ ~last.args.centered
    /\ last.args.n_seasons = 3
    /\ last.args.first_period = 1
    /\ last.args.len_endog > 3
    /\ last.ret.ok
    /\ last.ret.val[1] = <<Frac(0, 1), Frac(1, 1)>>

\* C8: vech fails for every matrix that is not square and returns no vector
\* for it.
C8_VechNonSquareFails ==
    (IsCall("vech") /\ last.args.nrows # last.args.ncols) => ~last.ret.ok

C10_SeedDeterminism ==
    IsCall("varsim") =>
        /\ last.ret.ok =>
              /\ Len(last.draws) = 1
              /\ last.draws[1].size = last.args.steps
        /\ (prev # NoCall /\ last.args.seed.kind = "int"
               /\ prev.args = last.args) =>
              last.ret = prev.ret

C10_Witness ==
    /\ IsCall("varsim")
    /\ prev # NoCall
    /\ last.args.seed.kind = "int"
    /\ prev.args = last.args
    /\ last.ret.ok
    /\ last.args.cov_resid # "zero"
    /\ last.args.steps > Len(last.args.coefs)
    /\ ~IsZeroRow(last.ugen[last.args.steps])

=============================================================================
